---- MODULE Spec2Model ----
(***************************************************************************)
(* The SPARQL filter-expression evaluator of                               *)
(* lib/util/SparqlExpressionEvaluator.js.                                  *)
(*                                                                         *)
(* The file declares the module twice, one revision after the other        *)
(* (lines 1-488 and lines 490-894).  Both are function declarations and    *)
(* `var` assignments of the same script, so when the file is loaded the    *)
(* later assignments (XSD_BOOLEAN, XSD_TRUE, XSD_FALSE, evaluators,        *)
(* operators, and the tagging loops that follow them) replace the earlier  *)
(* ones, and the function declarations of the second half are the ones in  *)
(* force.  The exported function therefore runs against the registry and   *)
(* the constants of lines 490-894; that state, the state after the load,   *)
(* is what this module models.  Where the first half differs (operators    *)
(* `in`, `not in`, the sixteen numeric constructors, its XSD_BOOLEAN) a    *)
(* comment says so.                                                        *)
(*                                                                         *)
(* JavaScript strings are TLA+ strings (sequences of characters); the      *)
(* other JavaScript values are records tagged by k.  RDF terms are         *)
(* strings in the N3 encoding: an IRI as is, "lex", "lex"^^type,           *)
(* "lex"@lang.                                                             *)
(***************************************************************************)
EXTENDS Integers, Sequences, FiniteSets, TLC

VARIABLES expression, evaluator, bindings, outcome, memo, interleaved

vars == <<expression, evaluator, bindings, outcome, memo, interleaved>>

----------------------------------------------------------------------------
(* JavaScript values *)

Str(s) == [k |-> "string", s |-> s]
Bool(b) == [k |-> "boolean", b |-> b]
Undefined == [k |-> "undefined"]
Null == [k |-> "null"]
Fin(n, d) == [k |-> "number", c |-> "fin", num |-> n, den |-> d]
NaN == [k |-> "number", c |-> "nan", num |-> 0, den |-> 1]
Infinity == [k |-> "number", c |-> "inf", num |-> 1, den |-> 1]
NegInfinity == [k |-> "number", c |-> "inf", num |-> -1, den |-> 1]

\* An Error object: what failed (kind) and the operator, variable or term it
\* is about.
Error(kind, about) == [kind |-> kind, about |-> about]

\* What an operator's implementation gives back: a value, or a thrown error.
Ok(v) == [k |-> "return", value |-> v]
Fail(kind, about) == [k |-> "throw", error |-> Error(kind, about)]

\* What a call of an evaluator gives back: a value or a thrown error and,
\* with it, the bindings object as the call left it.
Return(v, b) == [k |-> "return", value |-> v, bindings |-> b]
Throw(e, b) == [k |-> "throw", error |-> e, bindings |-> b]

\* What a state variable holds before the caller has set it.
None == [k |-> "none"]

IsString(v) == v.k = "string"

\* ToBoolean
Truthy(v) ==
    CASE v.k = "boolean" -> v.b
      [] v.k = "string" -> Len(v.s) > 0
      [] v.k = "number" -> ~(v.c = "nan") /\ ~(v.c = "fin" /\ v.num = 0)
      [] v.k = "undefined" -> FALSE
      [] v.k = "null" -> FALSE
      [] OTHER -> TRUE

----------------------------------------------------------------------------
(* Strings *)

Char(s, i) == SubSeq(s, i, i)

QUOTE == "\""

\* The positions of s that hold character ch.
Positions(s, ch) == {i \in 1..Len(s) : Char(s, i) = ch}

Max(S) == CHOOSE x \in S : \A y \in S : y <= x
Min(S) == CHOOSE x \in S : \A y \in S : x <= y

UPPER == "ABCDEFGHIJKLMNOPQRSTUVWXYZ"
LOWER == "abcdefghijklmnopqrstuvwxyz"

LowerChar(ch) ==
    IF \E i \in 1..Len(UPPER) : Char(UPPER, i) = ch
    THEN Char(LOWER, CHOOSE i \in 1..Len(UPPER) : Char(UPPER, i) = ch)
    ELSE ch

UpperChar(ch) ==
    IF \E i \in 1..Len(LOWER) : Char(LOWER, i) = ch
    THEN Char(UPPER, CHOOSE i \in 1..Len(LOWER) : Char(LOWER, i) = ch)
    ELSE ch

RECURSIVE toLowerCase(_)
toLowerCase(s) ==
    IF Len(s) = 0 THEN "" ELSE LowerChar(Char(s, 1)) \o toLowerCase(Tail(s))

RECURSIVE toUpperCase(_)
toUpperCase(s) ==
    IF Len(s) = 0 THEN "" ELSE UpperChar(Char(s, 1)) \o toUpperCase(Tail(s))

\* String.prototype.indexOf: the first position (from 0) of t in s, or -1.
indexOf(s, t) ==
    LET at == {i \in 0..(Len(s) - Len(t)) : SubSeq(s, i + 1, i + Len(t)) = t}
    IN  IF at = {} THEN -1 ELSE Min(at)

----------------------------------------------------------------------------
(* Numbers.  A finite number is the fraction num/den in lowest terms; the   *)
(* inputs of the model are integers and fractions whose decimal expansion   *)
(* terminates, for which double arithmetic is exact.                        *)

Abs(n) == IF n < 0 THEN -n ELSE n

RECURSIVE Gcd(_, _)
Gcd(a, b) == IF b = 0 THEN a ELSE Gcd(b, a % b)

RECURSIVE Pow10(_)
Pow10(n) == IF n = 0 THEN 1 ELSE 10 * Pow10(n - 1)

\* The finite number n/d (d # 0) in lowest terms with a positive denominator.
Ratio(n, d) ==
    LET g == Gcd(Abs(n), Abs(d))
        s == IF d < 0 THEN -1 ELSE 1
    IN  Fin(s * (n \div g), Abs(d) \div g)

IsNaN(x) == x.c = "nan"
IsInf(x) == x.c = "inf"
Sign(x) == IF x.num > 0 THEN 1 ELSE IF x.num < 0 THEN -1 ELSE 0
Inf(sign) == IF sign < 0 THEN NegInfinity ELSE Infinity

NumAdd(a, b) ==
    CASE IsNaN(a) \/ IsNaN(b) -> NaN
      [] IsInf(a) /\ IsInf(b) -> IF Sign(a) = Sign(b) THEN a ELSE NaN
      [] IsInf(a) -> a
      [] IsInf(b) -> b
      [] OTHER -> Ratio(a.num * b.den + b.num * a.den, a.den * b.den)

NumNeg(a) == IF IsNaN(a) THEN NaN ELSE [a EXCEPT !.num = -a.num]

NumSub(a, b) == NumAdd(a, NumNeg(b))

NumMul(a, b) ==
    CASE IsNaN(a) \/ IsNaN(b) -> NaN
      [] IsInf(a) \/ IsInf(b) ->
           IF Sign(a) = 0 \/ Sign(b) = 0 THEN NaN ELSE Inf(Sign(a) * Sign(b))
      [] OTHER -> Ratio(a.num * b.num, a.den * b.den)

NumDiv(a, b) ==
    CASE IsNaN(a) \/ IsNaN(b) -> NaN
      [] IsInf(a) /\ IsInf(b) -> NaN
      [] IsInf(a) -> Inf(Sign(a) * (IF Sign(b) < 0 THEN -1 ELSE 1))
      [] IsInf(b) -> Fin(0, 1)
      [] Sign(b) = 0 -> IF Sign(a) = 0 THEN NaN ELSE Inf(Sign(a))
      [] OTHER -> Ratio(a.num * b.den, a.den * b.num)

\* a < b on numbers: false as soon as one side is NaN.
NumLess(a, b) ==
    CASE IsNaN(a) \/ IsNaN(b) -> FALSE
      [] IsInf(a) /\ IsInf(b) -> Sign(a) < Sign(b)
      [] IsInf(a) -> Sign(a) < 0
      [] IsInf(b) -> Sign(b) > 0
      [] OTHER -> a.num * b.den < b.num * a.den

\* a === b on numbers: NaN equals nothing.
NumEq(a, b) == ~IsNaN(a) /\ ~IsNaN(b) /\ a = b

MathAbs(a) == IF IsNaN(a) THEN NaN ELSE [a EXCEPT !.num = Abs(a.num)]

\* The largest integer <= n/d, for d > 0.
FloorDiv(n, d) == IF n >= 0 THEN n \div d ELSE -((-n + d - 1) \div d)

MathFloor(a) == IF a.c = "fin" THEN Fin(FloorDiv(a.num, a.den), 1) ELSE a

MathCeil(a) == IF a.c = "fin" THEN Fin(-FloorDiv(-a.num, a.den), 1) ELSE a

DIGITS == "0123456789"

IsDigit(ch) == \E i \in 1..10 : Char(DIGITS, i) = ch

DigitValue(ch) == (CHOOSE i \in 1..10 : Char(DIGITS, i) = ch) - 1

RECURSIVE NatToString(_)
NatToString(n) ==
    IF n < 10 THEN Char(DIGITS, n + 1)
    ELSE NatToString(n \div 10) \o Char(DIGITS, (n % 10) + 1)

\* The digits of n, padded on the left with zeros to width w.
RECURSIVE Padded(_, _)
Padded(n, w) ==
    IF w = 0 THEN "" ELSE Padded(n \div 10, w - 1) \o Char(DIGITS, (n % 10) + 1)

\* The number of digits after the point that the fraction with denominator
\* den takes, at most 9.
FractionDigits(den) == Min({k \in 0..9 : Pow10(k) % den = 0} \cup {9})

\* The decimal numeral of scaled / 10^k with k digits after the point.
Decimal(scaled, k) ==
    IF k = 0 THEN NatToString(scaled)
    ELSE NatToString(scaled \div Pow10(k)) \o "." \o Padded(scaled % Pow10(k), k)

\* The decimal numeral of |x| with k digits after the point.
Numeral(x, k) == Decimal((Abs(x.num) * Pow10(k)) \div x.den, k)

\* Number::toString of a number whose decimal expansion terminates.
NumberToString(x) ==
    CASE IsNaN(x) -> "NaN"
      [] IsInf(x) -> IF Sign(x) < 0 THEN "-Infinity" ELSE "Infinity"
      [] OTHER -> (IF x.num < 0 THEN "-" ELSE "") \o Numeral(x, FractionDigits(x.den))

\* Number.prototype.toFixed(): the nearest integer, halves away from zero.
toFixed(x) ==
    IF x.c = "fin"
    THEN (IF x.num < 0 THEN "-" ELSE "")
         \o NatToString(FloorDiv(2 * Abs(x.num) + x.den, 2 * x.den))
    ELSE NumberToString(x)

\* The length of the run of digits of s that starts at position i.
RECURSIVE DigitRun(_, _)
DigitRun(s, i) ==
    IF i <= Len(s) /\ IsDigit(Char(s, i)) THEN 1 + DigitRun(s, i + 1) ELSE 0

RECURSIVE DigitsToNat(_)
DigitsToNat(s) ==
    IF Len(s) = 0 THEN 0
    ELSE 10 * DigitsToNat(SubSeq(s, 1, Len(s) - 1)) + DigitValue(Char(s, Len(s)))

RECURSIVE SkipSpaces(_)
SkipSpaces(s) ==
    IF Len(s) > 0 /\ Char(s, 1) = " " THEN SkipSpaces(Tail(s)) ELSE s

\* parseFloat: the number written by the longest prefix of s that is a decimal
\* literal (sign, digits, fraction), NaN when there is none.  Exponents are
\* not among the model's inputs.
\* The number that body writes with n digits before the point and f after.
ParseDigits(sign, body, n, f) ==
    CASE Len(body) >= 8 /\ SubSeq(body, 1, 8) = "Infinity" -> Inf(sign)
      [] n = 0 /\ f = 0 -> NaN
      [] OTHER ->
           Ratio(sign * (DigitsToNat(SubSeq(body, 1, n)) * Pow10(f)
                         + DigitsToNat(SubSeq(body, n + 2, n + 1 + f))),
                 Pow10(f))

ParseFraction(sign, body, n) ==
    ParseDigits(sign, body, n,
                IF Len(body) > n /\ Char(body, n + 1) = "."
                THEN DigitRun(body, n + 2) ELSE 0)

ParseUnsigned(sign, body) == ParseFraction(sign, body, DigitRun(body, 1))

ParseSigned(s) ==
    ParseUnsigned(IF Len(s) > 0 /\ Char(s, 1) = "-" THEN -1 ELSE 1,
                  IF Len(s) > 0 /\ Char(s, 1) \in {"-", "+"} THEN Tail(s) ELSE s)

parseFloat(str) == ParseSigned(SkipSpaces(str))

\* ToString of a JavaScript value, as string concatenation applies it.
JSToString(v) ==
    CASE v.k = "string" -> v.s
      [] v.k = "number" -> NumberToString(v)
      [] v.k = "boolean" -> IF v.b THEN "true" ELSE "false"
      [] v.k = "null" -> "null"
      [] v.k = "object" -> "[object Object]"
      [] OTHER -> "undefined"


----------------------------------------------------------------------------
(* The constants in force after the load *)

XSD == "http://www.w3.org/2001/XMLSchema#"
XSD_INTEGER == XSD \o "integer"
XSD_DOUBLE == XSD \o "double"
XSD_BOOLEAN == XSD \o "boolean"
XSD_TRUE == QUOTE \o "true" \o QUOTE \o "^^" \o XSD_BOOLEAN
XSD_FALSE == QUOTE \o "false" \o QUOTE \o "^^" \o XSD_BOOLEAN

----------------------------------------------------------------------------
(* The term-model collaborator N3.Util, which is not part of the           *)
(* repository: predicates and extractors over term strings, with the       *)
(* contract the evaluator relies on.  A literal is a string that starts    *)
(* with a quote; its value runs to the last quote; what follows the last   *)
(* quote is nothing, ^^ and a datatype, or @ and a language tag.  The      *)
(* extractors throw on anything else.  getLiteralType gives nothing        *)
(* (undefined) for a literal that carries no datatype.                     *)

\* isLiteral, like isUri and isBlank, hands a falsy entity back as it is.
isLiteral(entity) ==
    IF ~Truthy(entity) THEN entity
    ELSE Bool(IsString(entity) /\ Char(entity.s, 1) = QUOTE)

isUri(entity) ==
    IF ~Truthy(entity) THEN entity
    ELSE Bool(~IsString(entity) \/ Char(entity.s, 1) \notin {QUOTE, "_"})

isBlank(entity) ==
    IF ~Truthy(entity) THEN entity
    ELSE Bool(IsString(entity) /\ Len(entity.s) >= 2 /\ SubSeq(entity.s, 1, 2) = "_:")

\* The position of the quote that closes the literal text, 0 when text is
\* not a literal.
LastQuote(text) == Max(Positions(text, QUOTE) \cup {0})

\* What may follow the closing quote: nothing, ^^ and a datatype, or @ and
\* a language tag.
IsLiteralSuffix(rest) ==
    \/ rest = ""
    \/ Len(rest) > 2 /\ SubSeq(rest, 1, 2) = "^^"
    \/ Len(rest) > 1 /\ Char(rest, 1) = "@" /\ Positions(Tail(rest), "@") = {}

ClosesLiteral(text, last) ==
    IF Len(text) > 0 /\ Char(text, 1) = QUOTE /\ last > 1
       /\ IsLiteralSuffix(SubSeq(text, last + 1, Len(text)))
    THEN last ELSE 0

ClosingQuote(text) == ClosesLiteral(text, LastQuote(text))

\* The text after the closing quote.
Suffix(text) == SubSeq(text, ClosingQuote(text) + 1, Len(text))

\* The extractors read the string form of their argument.
IsLiteralText(v) == ClosingQuote(JSToString(v)) > 0

\* getLiteralValue matches only the opening and the last quote.
HasQuotedValue(text) == Len(text) > 1 /\ Char(text, 1) = QUOTE /\ LastQuote(text) > 1

HasLiteralValue(v) == HasQuotedValue(JSToString(v))

QuotedValue(text) == SubSeq(text, 2, LastQuote(text) - 1)

getLiteralValue(v) == QuotedValue(JSToString(v))

DatatypeOf(rest) ==
    IF Len(rest) > 2 /\ SubSeq(rest, 1, 2) = "^^"
    THEN Str(SubSeq(rest, 3, Len(rest)))
    ELSE Undefined

getLiteralType(v) == DatatypeOf(Suffix(JSToString(v)))

LanguageOf(rest) ==
    IF Len(rest) > 1 /\ Char(rest, 1) = "@" THEN toLowerCase(Tail(rest)) ELSE ""

getLiteralLanguage(v) == LanguageOf(Suffix(JSToString(v)))


----------------------------------------------------------------------------
(* Bindings: the caller's object from variable names to terms, or undefined *)
(* when the caller supplies none.                                           *)

Object(props) == [k |-> "object", props |-> props]

IsObject(v) == v.k = "object"

\* name in obj
In(name, obj) == name \in DOMAIN obj.props

\* The receiver of operator.apply(bindings, args): a function of a sloppy
\* script gets the global object, which has no property named like a
\* variable, when bindings is undefined or null.
ThisOf(b) == IF b.k \in {"undefined", "null"} THEN Object(<<>>) ELSE b

----------------------------------------------------------------------------
(* Helper functions *)

strdt(lexicalForm, datatypeIRI) ==
    Ok(Str(QUOTE \o JSToString(lexicalForm) \o QUOTE \o "^^<"
           \o JSToString(datatypeIRI) \o ">"))

strlang(lexicalForm, langTag) ==
    Ok(Str(QUOTE \o JSToString(lexicalForm) \o QUOTE \o "@" \o JSToString(langTag)))

\* The literal of lexicalForm with the language langTag or else the
\* datatype literalType, or plain.
constructLiteralWith(lexicalForm, langTag, literalType) ==
    CASE Len(langTag) > 0 -> strlang(Str(lexicalForm), Str(langTag))
      [] Truthy(literalType) -> strdt(Str(lexicalForm), literalType)
      [] OTHER -> Ok(Str(QUOTE \o lexicalForm \o QUOTE))

constructLiteral(lexicalForm, literal) ==
    IF ~IsLiteralText(literal) THEN Fail("NotALiteral", JSToString(literal))
    ELSE constructLiteralWith(lexicalForm, getLiteralLanguage(literal),
                              getLiteralType(literal))

\* A faulty rule: the two language tags are the same, or both absent.
compatibleLanguages_same(l1, l2) == l1 = l2

\* (l1 && (!l2 || l1 === l2)) || (!l1 && !l2)
compatibleLanguages(l1, l2) ==
    (Len(l1) > 0 /\ (Len(l2) = 0 \/ l1 = l2)) \/ (Len(l1) = 0 /\ Len(l2) = 0)

compatibleArguments(arg1, arg2) ==
    IF ~Truthy(isLiteral(arg1)) \/ ~Truthy(isLiteral(arg2)) THEN Ok(Bool(FALSE))
    ELSE IF ~IsLiteralText(arg1) THEN Fail("NotALiteral", JSToString(arg1))
    ELSE IF ~IsLiteralText(arg2) THEN Fail("NotALiteral", JSToString(arg2))
    ELSE Ok(Bool(compatibleLanguages(getLiteralLanguage(arg1),
                                     getLiteralLanguage(arg2))))

\* a === b
StrictEquals(a, b) ==
    IF a.k = "number" /\ b.k = "number" THEN NumEq(a, b) ELSE a = b

\* ToNumber of a value; of a string, the number the whole string writes.
ToNumber(v) ==
    CASE v.k = "number" -> v
      [] v.k = "boolean" -> IF v.b THEN Fin(1, 1) ELSE Fin(0, 1)
      [] v.k = "null" -> Fin(0, 1)
      [] v.k = "string" ->
           IF Len(v.s) = 0 THEN Fin(0, 1)
           ELSE IF \A i \in 1..Len(v.s) :
                      IsDigit(Char(v.s, i)) \/ Char(v.s, i) \in {".", "-", "+"}
           THEN parseFloat(v.s) ELSE NaN
      [] OTHER -> NaN

\* The integer part of a number, within the lengths of the model's strings.
Truncate(n) ==
    CASE IsNaN(n) -> 0
      [] IsInf(n) -> Sign(n) * 1000
      [] n.num >= 0 -> n.num \div n.den
      [] OTHER -> -((-n.num) \div n.den)

\* ToInteger of a value.
ToInteger(v) == Truncate(ToNumber(v))

\* Where substr starts in s: a negative start counts from the end.
StartIn(s, start) ==
    IF start < 0 THEN (IF Len(s) + start < 0 THEN 0 ELSE Len(s) + start)
    ELSE (IF start > Len(s) THEN Len(s) ELSE start)

\* At most want characters of s after the first from.
Slice(s, from, want) ==
    SubSeq(s, from + 1,
           from + (IF want < 0 THEN 0
                   ELSE IF want > Len(s) - from THEN Len(s) - from ELSE want))

\* String.prototype.substr(start, length), characters counted from 0.
substring(s, start, length) ==
    Slice(s, StartIn(s, ToInteger(start)),
          IF length.k = "undefined" THEN Len(s) ELSE ToInteger(length))

\* RegExp.prototype.test for a pattern without metacharacters, as the
\* patterns of the model are: the pattern occurs in the string.
RegExpTest(pattern, s) == indexOf(s, pattern) > -1


----------------------------------------------------------------------------
(* Operators for each of the operator types: the implementations of the    *)
(* registry in force (the second `var operators`).                         *)

\* 17.4.1 Functional Forms
plus(a, b) == Ok(NumAdd(a, b))
minus(a, b) == Ok(NumSub(a, b))
times(a, b) == Ok(NumMul(a, b))
divide(a, b) == Ok(NumDiv(a, b))
equals(a, b) == Ok(Bool(StrictEquals(a, b)))
notEquals(a, b) == Ok(Bool(~StrictEquals(a, b)))
less(a, b) == Ok(Bool(NumLess(a, b)))
lessOrEqual(a, b) == Ok(Bool(NumLess(a, b) \/ NumEq(a, b)))
greater(a, b) == Ok(Bool(NumLess(b, a)))
greaterOrEqual(a, b) == Ok(Bool(NumLess(b, a) \/ NumEq(a, b)))
not(a) == Ok(Bool(~Truthy(a)))
and(a, b) == Ok(IF Truthy(a) THEN b ELSE a)
or(a, b) == Ok(IF Truthy(a) THEN a ELSE b)

\* A faulty bound: an absent variable is an error.
bound_or_unbound(this, a) ==
    IF IsString(a) /\ Len(a.s) > 0 /\ Char(a.s, 1) = "?" /\ ~In(a.s, this)
    THEN Fail("UnboundVariable", a.s)
    ELSE Ok(Str(XSD_TRUE))

\* bound reads its receiver, the bindings: a is the expression as written.
bound(this, a) ==
    CASE a.k \in {"undefined", "null"} -> Fail("TypeError", "bound")
      [] ~(IsString(a) /\ Len(a.s) > 0 /\ Char(a.s, 1) = "?") ->
           Fail("InvalidArgument", "bound")
      [] OTHER -> Ok(Str(IF In(a.s, this) THEN XSD_TRUE ELSE XSD_FALSE))

if(a) == Fail("NotYetSupported", "if")
coalesce(a) == Fail("NotYetSupported", "coalesce")
\* A faulty exists: a function with an empty body.
exists_nothing(a) == Ok(Undefined)

exists(a) == Fail("NotYetSupported", "exists")
not_exists(a) == Fail("NotYetSupported", "not exists")
sameTerm(a) == Fail("NotYetSupported", "sameTerm")

\* 17.4.2 Functions on RDF Terms
isiri(a) == Ok(isUri(a))
isblank(a) == Ok(isBlank(a))
isliteral(a) == Ok(isLiteral(a))
isnumeric(a) == Fail("NotYetSupported", "isnumeric")

str(a) ==
    Ok(IF Truthy(isLiteral(a)) THEN a ELSE Str(QUOTE \o JSToString(a) \o QUOTE))

lang(a) ==
    IF ~IsLiteralText(a) THEN Fail("NotALiteral", JSToString(a))
    ELSE Ok(Str(QUOTE \o toLowerCase(getLiteralLanguage(a)) \o QUOTE))

datatype(a) ==
    IF ~IsLiteralText(a) THEN Fail("NotALiteral", JSToString(a))
    ELSE Ok(getLiteralType(a))

iri(a) ==
    CASE Truthy(isLiteral(a)) ->
           IF HasLiteralValue(a) THEN Ok(Str(getLiteralValue(a)))
           ELSE Fail("NotALiteral", JSToString(a))
      [] Truthy(isUri(a)) -> Ok(a)
      [] OTHER -> Fail("InvalidArgument", "iri")

bnode(a) == Fail("NotYetSupported", "bnode")
uuid == Fail("NotYetSupported", "uuid")
struuid == Fail("NotYetSupported", "struuid")

\* String functions
strlen(s) ==
    IF ~HasLiteralValue(s) THEN Fail("NotALiteral", JSToString(s))
    ELSE Ok(Fin(Len(getLiteralValue(s)), 1))

substr(s, startingLoc, length) ==
    IF ~HasLiteralValue(s) THEN Fail("NotALiteral", JSToString(s))
    ELSE constructLiteral(substring(getLiteralValue(s), startingLoc, length), s)

ucase(s) ==
    IF ~HasLiteralValue(s) THEN Fail("NotALiteral", JSToString(s))
    ELSE constructLiteral(toUpperCase(getLiteralValue(s)), s)

lcase(s) ==
    IF ~HasLiteralValue(s) THEN Fail("NotALiteral", JSToString(s))
    ELSE constructLiteral(toLowerCase(getLiteralValue(s)), s)

\* The part the five two-string functions share: the compatibility test,
\* which throws about the function named.
CompatibleOrThrow(name, compatible, result) ==
    IF compatible.k = "throw" THEN compatible
    ELSE IF ~compatible.value.b THEN Fail("ArgumentCompatibility", name)
    ELSE result

strstarts(arg1, arg2) ==
    CompatibleOrThrow("strstarts", compatibleArguments(arg1, arg2),
        Ok(Bool(indexOf(getLiteralValue(arg1), getLiteralValue(arg2)) = 0)))

\* a.indexOf(b) === (a.length - b.length)
EndsWith(a, b) == indexOf(a, b) = Len(a) - Len(b)

strends(arg1, arg2) ==
    CompatibleOrThrow("strends", compatibleArguments(arg1, arg2),
        Ok(Bool(EndsWith(getLiteralValue(arg1), getLiteralValue(arg2)))))

contains(arg1, arg2) ==
    CompatibleOrThrow("contains", compatibleArguments(arg1, arg2),
        Ok(Bool(indexOf(getLiteralValue(arg1), getLiteralValue(arg2)) > -1)))

\* strbefore and strafter cut the term string arg1, not its value.
Before(arg1, index) ==
    IF index > -1 THEN substring(arg1.s, Fin(index - 1, 1), Fin(1, 1)) ELSE ""

strbefore(arg1, arg2) ==
    CompatibleOrThrow("strbefore", compatibleArguments(arg1, arg2),
        constructLiteral(
            Before(arg1, indexOf(getLiteralValue(arg1), getLiteralValue(arg2))),
            arg1))

After(arg1, arg2, a, b, index) ==
    IF b = "" THEN a
    ELSE IF index > -1 /\ (index + Len(arg2.s)) < Len(arg1.s)
    THEN substring(arg1.s, Fin(index + Len(arg2.s), 1), Fin(1, 1))
    ELSE ""

AfterIn(arg1, arg2, a, b) == After(arg1, arg2, a, b, indexOf(a, b))

strafter(arg1, arg2) ==
    CompatibleOrThrow("strafter", compatibleArguments(arg1, arg2),
        constructLiteral(
            AfterIn(arg1, arg2, getLiteralValue(arg1), getLiteralValue(arg2)),
            arg1))

encode_for_uri(ltrl) == Fail("NotYetSupported", "encode_for_uri")

\* arguments has no forEach.
concat == Fail("TypeError", "concat")

langmatches(a, b) ==
    IF ~IsString(a) \/ ~IsString(b) THEN Fail("TypeError", "langmatches")
    ELSE Ok(Bool(toLowerCase(a.s) = toLowerCase(b.s)))

regex(subject, pattern) ==
    IF Truthy(isLiteral(subject)) /\ ~HasLiteralValue(subject)
    THEN Fail("NotALiteral", JSToString(subject))
    ELSE IF ~HasLiteralValue(pattern) THEN Fail("NotALiteral", JSToString(pattern))
    ELSE Ok(Bool(RegExpTest(getLiteralValue(pattern),
                            IF Truthy(isLiteral(subject))
                            THEN getLiteralValue(subject)
                            ELSE JSToString(subject))))

replace(arg, pattern, replacement, flags) == Fail("NotYetSupported", "replace")

\* 17.4.4 Functions on Numerics
abs(term) == Ok(MathAbs(term))
round(term) == Ok(MathAbs(term))
ceil(term) == Ok(MathCeil(term))
floor(term) == Ok(MathFloor(term))
\* Math.random(): the number the random source hands out.
rand(random) == Ok(random)

\* 17.4.5 Functions on Dates and Times, 17.4.6 Hash Functions and the
\* constructors but xsd:double: functions with an empty body.
now == Ok(Undefined)
year(dt) == Ok(Undefined)
month(dt) == Ok(Undefined)
day(dt) == Ok(Undefined)
hours(dt) == Ok(Undefined)
minutes(dt) == Ok(Undefined)
seconds(dt) == Ok(Undefined)
timezone(dt) == Ok(Undefined)
tz(dt) == Ok(Undefined)
md5(dt) == Ok(Undefined)
sha1(dt) == Ok(Undefined)
sha256(dt) == Ok(Undefined)
sha384(dt) == Ok(Undefined)
sha512(dt) == Ok(Undefined)
xsd_integer(a) == Ok(Undefined)
xsd_decimal(a) == Ok(Undefined)
xsd_float(a) == Ok(Undefined)
xsd_string(a) == Ok(Undefined)
xsd_boolean(a) == Ok(Undefined)
xsd_dateTime(a) == Ok(Undefined)

\* if (a.indexOf('.') < 0) a += '.0'
WithFraction(a) == IF indexOf(a, ".") < 0 THEN a \o ".0" ELSE a

xsd_double(a) ==
    Ok(Str(QUOTE \o WithFraction(toFixed(a)) \o QUOTE \o "^^" \o XSD_DOUBLE))

\* Object.prototype, which the registry object inherits from.
Object_toString(this) ==
    Ok(Str(CASE this.k = "null" -> "[object Null]"
             [] this.k = "undefined" -> "[object Undefined]"
             [] OTHER -> "[object Object]"))
Object_valueOf(this) ==
    IF this.k \in {"null", "undefined"} THEN Fail("TypeError", "valueOf") ELSE Ok(this)
Object_hasOwnProperty(this, v) ==
    IF this.k \in {"null", "undefined"} THEN Fail("TypeError", "hasOwnProperty")
    ELSE Ok(Bool(In(JSToString(v), this)))


----------------------------------------------------------------------------
(* The registry: the keys of the `operators` object in force with the      *)
(* number of parameters each function declares, and the tags the loops     *)
(* after the object put on them.                                           *)

XSD_CONSTRUCTORS ==
    {XSD \o "integer", XSD \o "decimal", XSD \o "float", XSD \o "double",
     XSD \o "string", XSD \o "boolean", XSD \o "dateTime"}

NoParameters == {"uuid", "struuid", "concat", "rand", "now"}

OneParameter ==
    {"!", "bound", "if", "coalesce", "exists", "not exists", "sameTerm",
     "isiri", "isblank", "isliteral", "isnumeric", "str", "lang", "datatype",
     "iri", "bnode", "strlen", "ucase", "lcase", "encode_for_uri",
     "abs", "round", "ceil", "floor",
     "year", "month", "day", "hours", "minutes", "seconds", "timezone", "tz",
     "md5", "sha1", "sha256", "sha384", "sha512"} \cup XSD_CONSTRUCTORS

TwoParameters ==
    {"+", "-", "*", "/", "=", "!=", "<", "<=", ">", ">=", "&&", "||",
     "strdt", "strlang", "strstarts", "strends", "contains", "strbefore",
     "strafter", "langmatches", "regex"}

ThreeParameters == {"substr"}

FourParameters == {"replace"}

\* The keys that hold a function.  The key uri holds this.iri, which is
\* undefined where the object literal is evaluated.
OperatorNames ==
    NoParameters \cup OneParameter \cup TwoParameters \cup ThreeParameters
        \cup FourParameters

\* What the registry object inherits from Object.prototype (three of its
\* functions stand for all), each with its number of parameters.
InheritedNames == {"toString", "valueOf", "hasOwnProperty"}

\* Function.length of the function a name is bound to.
length(name) ==
    CASE name \in NoParameters \cup {"toString", "valueOf"} -> 0
      [] name \in OneParameter \cup {"hasOwnProperty"} -> 1
      [] name \in TwoParameters -> 2
      [] name \in ThreeParameters -> 3
      [] name \in FourParameters -> 4

\* Tag all operators that expect their arguments to be numeric
NumericArguments ==
    {"+", "-", "*", "/", "<", "<=", ">", ">=", "abs", "round", "ceil", "floor",
     XSD \o "double"}

\* Tag all operators that expect their arguments to be boolean
BooleanArguments == {"!", "&&", "||"}

\* Tag all operators that have numeric results
NumericResults == {"+", "-", "*", "/", "<", "<=", ">", ">="}

\* Tag all operators that have boolean results
BooleanResults ==
    {"!", "&&", "||", "=", "<", "<=", ">", ">=", "langmatches", "regex"}

\* Tag all operators that take expressions instead of evaluated expressions
AcceptsExpressions == {"bound"}

\* operator.type once the four loops have run, in their order.
type(name) ==
    CASE name \in NumericResults -> "numeric"
      [] name \in BooleanArguments -> "boolean"
      [] name \in NumericArguments -> "numeric"
      [] OTHER -> "none"

\* operator.resultType once the loops have run: the boolean loop is last.
resultType(name) ==
    CASE name \in BooleanResults -> "boolean"
      [] name \in NumericResults -> "numeric"
      [] OTHER -> "none"

acceptsExpressions(name) == name \in AcceptsExpressions

\* operators[operatorName]: whether the lookup finds a function.
operators(operatorName) ==
    IF operatorName \in OperatorNames \cup InheritedNames
    THEN [k |-> "function", name |-> operatorName]
    ELSE Undefined

\* operator.apply(receiver, args), the arguments as many as the function
\* declares.
Apply(name, this, args, random) ==
    CASE name = "+" -> plus(args[1], args[2])
      [] name = "-" -> minus(args[1], args[2])
      [] name = "*" -> times(args[1], args[2])
      [] name = "/" -> divide(args[1], args[2])
      [] name = "=" -> equals(args[1], args[2])
      [] name = "!=" -> notEquals(args[1], args[2])
      [] name = "<" -> less(args[1], args[2])
      [] name = "<=" -> lessOrEqual(args[1], args[2])
      [] name = ">" -> greater(args[1], args[2])
      [] name = ">=" -> greaterOrEqual(args[1], args[2])
      [] name = "!" -> not(args[1])
      [] name = "&&" -> and(args[1], args[2])
      [] name = "||" -> or(args[1], args[2])
      [] name = "bound" -> bound(this, args[1])
      [] name = "if" -> if(args[1])
      [] name = "coalesce" -> coalesce(args[1])
      [] name = "exists" -> exists(args[1])
      [] name = "not exists" -> not_exists(args[1])
      [] name = "sameTerm" -> sameTerm(args[1])
      [] name = "isiri" -> isiri(args[1])
      [] name = "isblank" -> isblank(args[1])
      [] name = "isliteral" -> isliteral(args[1])
      [] name = "isnumeric" -> isnumeric(args[1])
      [] name = "str" -> str(args[1])
      [] name = "lang" -> lang(args[1])
      [] name = "datatype" -> datatype(args[1])
      [] name = "iri" -> iri(args[1])
      [] name = "bnode" -> bnode(args[1])
      [] name = "strdt" -> strdt(args[1], args[2])
      [] name = "strlang" -> strlang(args[1], args[2])
      [] name = "uuid" -> uuid
      [] name = "struuid" -> struuid
      [] name = "strlen" -> strlen(args[1])
      [] name = "substr" -> substr(args[1], args[2], args[3])
      [] name = "ucase" -> ucase(args[1])
      [] name = "lcase" -> lcase(args[1])
      [] name = "strstarts" -> strstarts(args[1], args[2])
      [] name = "strends" -> strends(args[1], args[2])
      [] name = "contains" -> contains(args[1], args[2])
      [] name = "strbefore" -> strbefore(args[1], args[2])
      [] name = "strafter" -> strafter(args[1], args[2])
      [] name = "encode_for_uri" -> encode_for_uri(args[1])
      [] name = "concat" -> concat
      [] name = "langmatches" -> langmatches(args[1], args[2])
      [] name = "regex" -> regex(args[1], args[2])
      [] name = "replace" -> replace(args[1], args[2], args[3], args[4])
      [] name = "abs" -> abs(args[1])
      [] name = "round" -> round(args[1])
      [] name = "ceil" -> ceil(args[1])
      [] name = "floor" -> floor(args[1])
      [] name = "rand" -> rand(random)
      [] name = "now" -> now
      [] name = "year" -> year(args[1])
      [] name = "month" -> month(args[1])
      [] name = "day" -> day(args[1])
      [] name = "hours" -> hours(args[1])
      [] name = "minutes" -> minutes(args[1])
      [] name = "seconds" -> seconds(args[1])
      [] name = "timezone" -> timezone(args[1])
      [] name = "tz" -> tz(args[1])
      [] name = "md5" -> md5(args[1])
      [] name = "sha1" -> sha1(args[1])
      [] name = "sha256" -> sha256(args[1])
      [] name = "sha384" -> sha384(args[1])
      [] name = "sha512" -> sha512(args[1])
      [] name = XSD \o "integer" -> xsd_integer(args[1])
      [] name = XSD \o "decimal" -> xsd_decimal(args[1])
      [] name = XSD \o "float" -> xsd_float(args[1])
      [] name = XSD \o "double" -> xsd_double(args[1])
      [] name = XSD \o "string" -> xsd_string(args[1])
      [] name = XSD \o "boolean" -> xsd_boolean(args[1])
      [] name = XSD \o "dateTime" -> xsd_dateTime(args[1])
      [] name = "toString" -> Object_toString(this)
      [] name = "valueOf" -> Object_valueOf(this)
      [] name = "hasOwnProperty" -> Object_hasOwnProperty(this, args[1])


----------------------------------------------------------------------------
(* Expressions and the evaluators for each of the expression types.  An    *)
(* expression is a string (an IRI, a literal or a variable), an object     *)
(* with a type, or nothing.  A compiled evaluator is a function value: f   *)
(* names the closure, the other fields are what the closure captured.      *)

Operation(operatorName, args) ==
    [k |-> "object", type |-> "operation", operator |-> operatorName, args |-> args]

noop == [k |-> "function", f |-> "noop"]

\* expression.type || typeof expression
expressionType(e) == IF IsObject(e) THEN e.type ELSE e.k

\* Evaluates an IRI, literal, or variable
evaluators_string(e) ==
    IF Char(e.s, 1) # "?"
    THEN Ok([k |-> "function", f |-> "constant", expression |-> e.s])
    ELSE Ok([k |-> "function", f |-> "variable", expression |-> e.s])

RECURSIVE SparqlExpressionEvaluator(_)
RECURSIVE ParseArguments(_, _, _)
RECURSIVE ParseArgument(_, _, _, _)

\* Parse the expressions for each of the arguments: the evaluators of
\* args[i..], after those already made, or what the first failing one threw.
ParseArguments(args, i, argumentExpressions) ==
    IF i > Len(args) THEN Ok(argumentExpressions)
    ELSE ParseArgument(args, i, argumentExpressions,
                       SparqlExpressionEvaluator(args[i]))

\* The step of that loop for args[i], compiled into made.
ParseArgument(args, i, argumentExpressions, made) ==
    IF made.k = "throw" THEN made
    ELSE ParseArguments(args, i + 1, Append(argumentExpressions, made.value))

\* The function the operation evaluator returns over the parsed arguments.
OperationEvaluator(operatorName, parsed) ==
    IF parsed.k = "throw" THEN parsed
    ELSE Ok([k |-> "function", f |-> "operation", operator |-> operatorName,
             argumentExpressions |-> parsed.value])

\* A faulty operation evaluator: an operation with the wrong number of
\* arguments compiles, to a function that does nothing.
evaluators_operation_late(e) ==
    CASE ~Truthy(operators(e.operator)) -> Fail("UnsupportedOperator", e.operator)
      [] length(e.operator) # Len(e.args) -> Ok([k |-> "function", f |-> "noop"])
      [] acceptsExpressions(e.operator) ->
           Ok([k |-> "function", f |-> "expressions",
               operator |-> e.operator, args |-> e.args])
      [] OTHER -> OperationEvaluator(e.operator, ParseArguments(e.args, 1, <<>>))

\* Evaluates an operation
evaluators_operation(e) ==
    CASE ~Truthy(operators(e.operator)) -> Fail("UnsupportedOperator", e.operator)
      [] length(e.operator) # Len(e.args) -> Fail("ArityMismatch", e.operator)
      [] acceptsExpressions(e.operator) ->
           Ok([k |-> "function", f |-> "expressions",
               operator |-> e.operator, args |-> e.args])
      [] OTHER -> OperationEvaluator(e.operator, ParseArguments(e.args, 1, <<>>))

\* Creates a function that evaluates the given SPARQL expression.
SparqlExpressionEvaluator(e) ==
    CASE ~Truthy(e) -> Ok(noop)
      [] expressionType(e) = "null" -> Ok(noop)
      [] expressionType(e) = "string" -> evaluators_string(e)
      [] expressionType(e) = "operation" -> evaluators_operation(e)
      [] OTHER -> Fail("UnsupportedExpressionType", expressionType(e))

----------------------------------------------------------------------------
(* Calling a compiled evaluator with bindings *)

\* A faulty variable evaluator: an absent variable evaluates to nothing.
variable_or_nothing(name, b) ==
    IF ~Truthy(b) \/ ~In(name, b) THEN Return(Undefined, b)
    ELSE Return(b.props[name], b)

\* A faulty variable evaluator: it enters an absent variable in the bindings.
variable_defaulting(name, b) ==
    IF ~Truthy(b) THEN Throw(Error("UnboundVariable", name), b)
    ELSE IF ~In(name, b)
    THEN Throw(Error("UnboundVariable", name),
               [b EXCEPT !.props = (name :> Undefined) @@ b.props])
    ELSE Return(b.props[name], b)

\* The evaluator of a variable
variable(name, b) ==
    IF ~Truthy(b) \/ ~In(name, b) THEN Throw(Error("UnboundVariable", name), b)
    ELSE Return(b.props[name], b)

\* A faulty conversion: a literal with an empty lexical value is false too.
ConvertArgumentEmptyFalse(operatorType, arg) ==
    CASE operatorType = "numeric" ->
           IF HasLiteralValue(arg) THEN Ok(parseFloat(getLiteralValue(arg)))
           ELSE Fail("NotALiteral", JSToString(arg))
      [] operatorType = "boolean" ->
           IF arg = Str(XSD_FALSE) THEN Ok(Bool(FALSE))
           ELSE IF ~Truthy(isLiteral(arg)) THEN Ok(Bool(TRUE))
           ELSE IF ~HasLiteralValue(arg) THEN Fail("NotALiteral", JSToString(arg))
           ELSE Ok(Bool(getLiteralValue(arg) \notin {"0", ""}))
      [] OTHER -> Ok(arg)

\* Convert the arguments if necessary
ConvertArgument(operatorType, arg) ==
    CASE operatorType = "numeric" ->
           IF HasLiteralValue(arg) THEN Ok(parseFloat(getLiteralValue(arg)))
           ELSE Fail("NotALiteral", JSToString(arg))
      [] operatorType = "boolean" ->
           IF arg = Str(XSD_FALSE) THEN Ok(Bool(FALSE))
           ELSE IF ~Truthy(isLiteral(arg)) THEN Ok(Bool(TRUE))
           ELSE IF ~HasLiteralValue(arg) THEN Fail("NotALiteral", JSToString(arg))
           ELSE Ok(Bool(getLiteralValue(arg) # "0"))
      [] OTHER -> Ok(arg)

\* N3Util.getLiteralType(origArgs[0]) || XSD_INTEGER
TypeOrInteger(literalType) ==
    IF Truthy(literalType) THEN literalType.s ELSE XSD_INTEGER

\* A faulty result conversion: every numeric result is an integer.
ConvertResultAsInteger(operatorResultType, result, origArgs) ==
    CASE operatorResultType = "numeric" ->
           Ok(Str(QUOTE \o JSToString(result) \o QUOTE \o "^^" \o XSD_INTEGER))
      [] operatorResultType = "boolean" ->
           Ok(Str(IF Truthy(result) THEN XSD_TRUE ELSE XSD_FALSE))
      [] OTHER -> Ok(result)

\* Convert result if necessary
ConvertResult(operatorResultType, result, origArgs) ==
    CASE operatorResultType = "numeric" ->
           IF ~IsLiteralText(origArgs[1]) THEN Fail("NotALiteral", JSToString(origArgs[1]))
           ELSE Ok(Str(QUOTE \o JSToString(result) \o QUOTE \o "^^"
                       \o TypeOrInteger(getLiteralType(origArgs[1]))))
      [] operatorResultType = "boolean" ->
           Ok(Str(IF Truthy(result) THEN XSD_TRUE ELSE XSD_FALSE))
      [] OTHER -> Ok(result)

\* What a call gives back when the step it made gave `made`: the error made
\* threw, or else the value that follows.
Thrown(made, b, value) ==
    IF made.k = "throw" THEN Throw(made.error, b) ELSE value

RECURSIVE Call(_, _, _)
RECURSIVE EvaluateArguments(_, _, _, _, _, _, _)
RECURSIVE EvaluateArgument(_, _, _, _, _, _, _)
RECURSIVE ConvertedArgument(_, _, _, _, _, _, _, _)

\* A faulty step of the loop: an argument whose evaluator threw counts as
\* nothing, and the loop goes on.
EvaluateArgumentOrNothing(operatorType, argumentExpressions, i, random, args, origArgs, got) ==
    ConvertedArgument(operatorType, argumentExpressions, i, random, args, origArgs,
                      Return(IF got.k = "throw" THEN Undefined ELSE got.value,
                             got.bindings),
                      ConvertArgument(operatorType,
                                      IF got.k = "throw" THEN Undefined ELSE got.value))

\* Evaluate the arguments from the i-th on, each against the bindings and
\* converted before the next is evaluated; what the first failure threw.
EvaluateArguments(operatorType, argumentExpressions, i, b, random, args, origArgs) ==
    IF i > Len(argumentExpressions)
    THEN [k |-> "arguments", args |-> args, origArgs |-> origArgs, bindings |-> b]
    ELSE EvaluateArgument(operatorType, argumentExpressions, i, random, args, origArgs,
                          Call(argumentExpressions[i], b, random))

\* The step of that loop for the i-th argument, whose evaluator gave `got`.
EvaluateArgument(operatorType, argumentExpressions, i, random, args, origArgs, got) ==
    IF got.k = "throw" THEN got
    ELSE ConvertedArgument(operatorType, argumentExpressions, i, random, args, origArgs,
                           got, ConvertArgument(operatorType, got.value))

ConvertedArgument(operatorType, argumentExpressions, i, random, args, origArgs, got, converted) ==
    Thrown(converted, got.bindings,
           EvaluateArguments(operatorType, argumentExpressions, i + 1, got.bindings,
                             random, Append(args, converted.value),
                             Append(origArgs, got.value)))

\* A faulty call context: the bindings of the call before, which the
\* evaluator kept.
StaleReceiver(b) == IF bindings = None THEN ThisOf(b) ELSE ThisOf(bindings)

\* The call context an operator that accepts expressions runs in.
Receiver(b) == ThisOf(b)

\* The value of a result, which converted gives or threw.
ConvertedResult(evaluated, converted) ==
    Thrown(converted, evaluated.bindings,
           Return(converted.value, evaluated.bindings))

\* Convert the result of operator.apply, unless it threw.
AppliedResult(f, evaluated, result) ==
    Thrown(result, evaluated.bindings,
           ConvertedResult(evaluated,
                           ConvertResult(resultType(f.operator), result.value,
                                         evaluated.origArgs)))

\* Apply the operator on the evaluated arguments, unless one of them threw.
EvaluatedOperation(f, evaluated, random) ==
    IF evaluated.k = "throw" THEN evaluated
    ELSE AppliedResult(f, evaluated, Apply(f.operator, Null, evaluated.args, random))

\* An operator that accepts expressions returns what it gives, unconverted.
ExpressionsResult(result, b) == Thrown(result, b, Return(result.value, b))

\* evaluator(bindings): the call of the function f that a compilation made.
Call(f, b, random) ==
    CASE f.f = "noop" -> Return(Undefined, b)
      [] f.f = "constant" -> Return(Str(f.expression), b)
      [] f.f = "variable" -> variable(f.expression, b)
      [] f.f = "expressions" ->
           ExpressionsResult(Apply(f.operator, Receiver(b), f.args, random), b)
      [] f.f = "operation" ->
           EvaluatedOperation(f,
               EvaluateArguments(type(f.operator), f.argumentExpressions,
                                 1, b, random, <<>>, <<>>),
               random)


----------------------------------------------------------------------------
(* The inputs of the model: expressions, bindings, random numbers *)

MaxExponent == 1
MaxArgs == 2
MaxDepth == 2

RECURSIVE Pow2(_)
Pow2(n) == IF n = 0 THEN 1 ELSE 2 * Pow2(n - 1)

Literal(lex) == QUOTE \o lex \o QUOTE
Typed(lex, datatypeIRI) == QUOTE \o lex \o QUOTE \o "^^" \o datatypeIRI
Tagged(lex, language) == QUOTE \o lex \o QUOTE \o "@" \o language

\* Numbers whose quotients have a terminating decimal expansion.
Numbers == {0} \cup {Pow2(i) : i \in 0..MaxExponent}

\* Numeric literals: the term, the number it writes, and the datatype it
\* carries (none for a plain literal).
NumericLiterals ==
    {[term |-> Typed(NatToString(n), XSD_INTEGER), number |-> Fin(n, 1),
      datatype |-> Str(XSD_INTEGER)] : n \in Numbers}
        \cup {[term |-> Literal("2"), number |-> Fin(2, 1), datatype |-> Undefined],
              [term |-> Typed("0.5", XSD \o "decimal"), number |-> Fin(1, 2),
               datatype |-> Str(XSD \o "decimal")]}

NumericTerms == {l.term : l \in NumericLiterals}

IRI_A == "http://example.org/a"

\* The operands of the arithmetic and comparison operators.
NumericOperands == {Str(s) : s \in NumericTerms \cup {"?x", IRI_A}}

\* The operands of the logical operators.
LogicalOperands ==
    {Str(s) : s \in {XSD_TRUE, XSD_FALSE, Literal("0"), Literal(""), IRI_A, "?x"}}

\* The operands of the string functions.
StringOperands ==
    {Str(s) : s \in {Tagged("abc", "en"), Tagged("ab", "en"), Tagged("bc", "fr"),
                     Literal("abc"), Literal("b"), IRI_A, "?x"}}

\* The operands every operator name is tried with.
CommonOperands == {Str(Literal("2")), Str("?x")}

Leaves ==
    NumericOperands \cup LogicalOperands \cup StringOperands
        \cup {Str("?y"), Str("_:b"), Null}

\* Names that are no key of the registry in force: in, not in and xsd:int
\* are keys of the first `var operators` only.
UnknownNames == {"nosuch", "in", "not in", "uri", XSD \o "int"}

AllNames == OperatorNames \cup InheritedNames \cup UnknownNames

\* The sequences of length n over S.
Lists(S, n) == [1..n -> S]

Pairs(S) == Lists(S, 2)

\* Every name with every list of at most MaxArgs common operands, and with
\* a list of the length its function declares.
CommonOperations ==
    {Operation(o, as) : o \in AllNames,
                        as \in UNION {Lists(CommonOperands, n) : n \in 0..MaxArgs}}
        \cup {Operation(o, [i \in 1..length(o) |-> Str(Literal("2"))]) :
                o \in OperatorNames \cup InheritedNames}

NumericOperations ==
    {Operation(o, as) : o \in {"+", "-", "*", "/", "=", "!=", "<", "<=", ">", ">="},
                        as \in Pairs(NumericOperands)}

LogicalOperations ==
    {Operation(o, as) : o \in {"&&", "||"}, as \in Pairs(LogicalOperands)}
        \cup {Operation("!", <<a>>) : a \in LogicalOperands}

StringOperations ==
    {Operation(o, as) : o \in {"strstarts", "strends", "contains", "strbefore",
                               "strafter"},
                        as \in Pairs(StringOperands)}

\* Operations to nest: failing at compile time, failing at run time,
\* returning a term, a raw value or nothing.
Seeds ==
    {Operation("+", <<Str(Literal("2"))>>),
     Operation("nosuch", <<>>),
     [k |-> "object", type |-> "functionCall"],
     Operation("now", <<>>),
     Operation("rand", <<>>),
     Operation("bound", <<Str("?x")>>),
     Operation("!=", <<Str("?x"), Str(Literal("2"))>>),
     Operation("+", <<Str("?x"), Str("?y")>>)}

\* One more operator around each expression of E.
Wrap(E) ==
    {Operation(o, <<e>>) : o \in {"!", "bound", "exists"}, e \in E}
        \cup {Operation("+", <<Str(Typed("1", XSD_INTEGER)), e>>) : e \in E}
        \cup {Operation("&&", <<e, Str("?y")>>) : e \in E}

RECURSIVE Nested(_)
Nested(d) == IF d = 0 THEN Seeds ELSE Wrap(Nested(d - 1))

\* Two operations side by side: the one compiled first decides the error.
Siblings == {Operation("&&", <<a, b>>) : a \in Seeds, b \in Seeds}

\* bound over no expression, an empty string, a blank node and a variable.
BoundOperations ==
    {Operation("bound", <<a>>) : a \in {Null, Str(""), Str("_:b"), Str("?y")}}

Expressions ==
    Leaves \cup CommonOperations \cup NumericOperations \cup LogicalOperations
        \cup StringOperations \cup Siblings \cup BoundOperations
        \cup UNION {Nested(d) : d \in 0..MaxDepth}

\* The bindings a caller supplies: none, or an object.
BindingsSet ==
    {Undefined,
     Object("?x" :> Str(Typed("2", XSD_INTEGER))),
     Object(("?x" :> Str(XSD_FALSE)) @@ ("?y" :> Str(Typed("1", XSD_INTEGER))))}

\* What Math.random() may hand out.
RandomNumbers == {Fin(0, 1), Fin(1, 2)}

----------------------------------------------------------------------------
(* The state machine: a caller compiles an expression, calls the evaluator *)
(* it got any number of times, and lets go of it.                          *)
(*   expression  the expression last handed to the compiler                *)
(*   evaluator   what compiling it gave: a function, or a thrown error     *)
(*   bindings    the bindings object the caller handed to the last call    *)
(*   outcome     what the last call gave, with the bindings as it left them*)
(*   memo        the calls made of this evaluator: <<bindings, outcome>>   *)
(*   interleaved whether the last call repeated the bindings of an earlier *)
(*               call of this evaluator after a call with other bindings   *)

Init ==
    /\ expression = None
    /\ evaluator = None
    /\ bindings = None
    /\ outcome = None
    /\ memo = {}
    /\ interleaved = FALSE

\* var evaluator = SparqlExpressionEvaluator(e)
Compile(e) ==
    /\ evaluator = None
    /\ expression' = e
    /\ evaluator' = SparqlExpressionEvaluator(e)
    /\ UNCHANGED <<bindings, outcome, memo, interleaved>>

\* evaluator(b)
Invoke(b, random) ==
    /\ evaluator.k = "return"
    /\ bindings' = b
    /\ outcome' = Call(evaluator.value, b, random)
    /\ memo' = memo \cup {<<b, outcome'>>}
    /\ interleaved' = (bindings # b /\ \E call \in memo : call[1] = b)
    /\ UNCHANGED <<expression, evaluator>>

\* SparqlExpressionEvaluator.evaluate(e, b)
Evaluate(e, b, random) ==
    /\ evaluator = None
    /\ expression' = e
    /\ evaluator' = SparqlExpressionEvaluator(e)
    /\ bindings' = b
    /\ outcome' = IF evaluator'.k = "throw" THEN Throw(evaluator'.error, b)
                  ELSE Call(evaluator'.value, b, random)
    /\ memo' = {<<b, outcome'>>}
    /\ interleaved' = FALSE

\* The caller drops the evaluator.
Discard ==
    /\ evaluator # None
    /\ expression' = None
    /\ evaluator' = None
    /\ bindings' = None
    /\ outcome' = None
    /\ memo' = {}
    /\ interleaved' = FALSE

Next ==
    \/ \E e \in Expressions : Compile(e)
    \/ \E b \in BindingsSet, random \in RandomNumbers : Invoke(b, random)
    \/ \E e \in Expressions, b \in BindingsSet, random \in RandomNumbers :
           Evaluate(e, b, random)
    \/ Discard

Spec == Init /\ [][Next]_vars

----------------------------------------------------------------------------
(* What the properties below say about expressions *)

IsOperation(e) == IsObject(e) /\ e.type = "operation"

IsVariable(e) == IsString(e) /\ Len(e.s) > 0 /\ Char(e.s, 1) = "?"

\* The keys of the registry object; the key uri holds no function.
RegistryKeys == OperatorNames \cup {"uri"}

\* An operation the compiler goes below: its operator is a function of
\* the registry that declares as many parameters as the operation has
\* arguments and takes evaluated arguments.
IsEvaluatedOperation(e) ==
    /\ IsOperation(e)
    /\ Truthy(operators(e.operator))
    /\ length(e.operator) = Len(e.args)
    /\ ~acceptsExpressions(e.operator)

RECURSIVE Visited(_)
RECURSIVE VisitedArguments(_, _)

\* The nodes of e below evaluated operations, a parent before its
\* arguments and the arguments from left to right.
Visited(e) ==
    <<e>> \o (IF IsEvaluatedOperation(e) THEN VisitedArguments(e.args, 1) ELSE <<>>)

VisitedArguments(args, i) ==
    IF i > Len(args) THEN <<>>
    ELSE Visited(args[i]) \o VisitedArguments(args, i + 1)

\* What is wrong with the node n by itself.
Fault(n) ==
    CASE ~Truthy(n) -> "none"
      [] IsString(n) -> "none"
      [] IsOperation(n) ->
           IF ~Truthy(operators(n.operator)) THEN "UnsupportedOperator"
           ELSE IF length(n.operator) # Len(n.args) THEN "ArityMismatch"
           ELSE "none"
      [] OTHER -> "UnsupportedExpressionType"

Faulty(e) == {i \in 1..Len(Visited(e)) : Fault(Visited(e)[i]) # "none"}

\* The fault of the first faulty node of e.
FirstFault(e) ==
    IF Faulty(e) = {} THEN "none" ELSE Fault(Visited(e)[Min(Faulty(e))])

HasArityMismatch(e) ==
    \E i \in 1..Len(Visited(e)) : Fault(Visited(e)[i]) = "ArityMismatch"

RECURSIVE ContainsRandom(_)
\* e contains RAND, UUID or STRUUID.
ContainsRandom(e) ==
    /\ IsOperation(e)
    /\ \/ e.operator \in {"rand", "uuid", "struuid"}
       \/ \E i \in 1..Len(e.args) : ContainsRandom(e.args[i])

Compiled == evaluator # None

Called == outcome # None

\* name is a key of the bindings of the last call.
Bound(name) == IsObject(bindings) /\ name \in DOMAIN bindings.props

Arithmetic == {"+", "-", "*", "/"}

Comparisons == {"=", "!=", "<", "<=", ">", ">="}

\* The arithmetic result of o on the numbers x and y.
ArithmeticResult(o, x, y) ==
    CASE o = "+" -> NumAdd(x, y)
      [] o = "-" -> NumSub(x, y)
      [] o = "*" -> NumMul(x, y)
      [] o = "/" -> NumDiv(x, y)

\* Whether the comparison o holds of the numbers x and y.
ComparisonHolds(o, x, y) ==
    CASE o = "=" -> NumEq(x, y)
      [] o = "!=" -> ~NumEq(x, y)
      [] o = "<" -> NumLess(x, y)
      [] o = "<=" -> NumLess(x, y) \/ NumEq(x, y)
      [] o = ">" -> NumLess(y, x)
      [] o = ">=" -> NumLess(y, x) \/ NumEq(x, y)

\* The operators the registry declares without implementing them.
Stubs ==
    {"exists", "not exists", "in", "not in", "bnode", "encode_for_uri", "replace",
     "md5", "sha1", "sha256", "sha384", "sha512",
     "now", "year", "month", "day", "hours", "minutes", "seconds", "timezone", "tz"}
        \cup (XSD_CONSTRUCTORS \ {XSD \o "double"})

----------------------------------------------------------------------------
(* Properties *)

\* C1, as the code has it: an expression with an operation, anywhere below
\* evaluated operations, whose number of arguments differs from the number
\* of parameters of its operator never compiles; the error thrown at compile
\* time is that of the first faulty node, parent first and left to right,
\* so it is the arity mismatch unless an unsupported operator or expression
\* type comes before it; and no call of a compiled evaluator throws an arity
\* mismatch.
C1_ArityCheckedAtCompileTime ==
    /\ (Compiled /\ HasArityMismatch(expression)) =>
           (evaluator.k = "throw" /\ evaluator.error.kind = FirstFault(expression))
    /\ (Compiled /\ evaluator.k = "return" /\ Called /\ outcome.k = "throw") =>
           outcome.error.kind # "ArityMismatch"

\* C1 as stated: every such expression fails to compile with the arity
\* mismatch, and no call of a compiled evaluator throws one.
C1_AlwaysArityMismatch ==
    /\ (Compiled /\ HasArityMismatch(expression)) =>
           (evaluator.k = "throw" /\ evaluator.error.kind = "ArityMismatch")
    /\ (Compiled /\ evaluator.k = "return" /\ Called /\ outcome.k = "throw") =>
           outcome.error.kind # "ArityMismatch"

\* An operation nested in a well-formed one has the wrong number of
\* arguments, and compiling threw the arity mismatch.
C1_Witness ==
    /\ Compiled
    /\ Fault(expression) = "none"
    /\ HasArityMismatch(expression)
    /\ evaluator.k = "throw"
    /\ evaluator.error.kind = "ArityMismatch"

\* C2: compiling an operation whose operator is no key of the registry
\* throws the unsupported-operator error, whatever the number of arguments,
\* and returns no evaluator.
C2_UnknownOperatorRejected ==
    (Compiled /\ IsOperation(expression) /\ expression.operator \notin RegistryKeys) =>
        evaluator = Fail("UnsupportedOperator", expression.operator)

\* C3: a variable always compiles; a call returns the term the bindings
\* hold for it, and throws the unbound-variable error when the bindings
\* hold none or there are no bindings.
C3_VariableLookup ==
    (Compiled /\ IsVariable(expression)) =>
        /\ evaluator.k = "return"
        /\ Called =>
             IF Bound(expression.s)
             THEN outcome = Return(bindings.props[expression.s], bindings)
             ELSE /\ outcome.k = "throw"
                  /\ outcome.error = Error("UnboundVariable", expression.s)

\* A variable the bindings object does not hold was looked up.
C3_Witness ==
    /\ expression = Str("?y")
    /\ Called
    /\ IsObject(bindings)
    /\ ~Bound("?y")
    /\ outcome.k = "throw"

\* C4: BOUND of a variable returns the true sentinel when the variable is
\* a key of the bindings and the false sentinel when it is not, without an
\* error; BOUND of an expression that is no variable throws the
\* invalid-argument error.
C4_Bound ==
    (Called /\ IsOperation(expression) /\ expression.operator = "bound"
       /\ Len(expression.args) = 1 /\ expression.args[1] # Null) =>
        IF IsVariable(expression.args[1])
        THEN outcome = Return(Str(IF Bound(expression.args[1].s)
                                  THEN XSD_TRUE ELSE XSD_FALSE), bindings)
        ELSE outcome.k = "throw" /\ outcome.error.kind = "InvalidArgument"

\* BOUND of a variable that the bindings object does not hold returned the
\* false sentinel.
C4_Witness ==
    /\ expression = Operation("bound", <<Str("?y")>>)
    /\ IsObject(bindings)
    /\ ~Bound("?y")
    /\ Called
    /\ outcome.k = "return"
    /\ outcome.value = Str(XSD_FALSE)

\* C5: an arithmetic operator on two numeric literals returns the literal
\* that writes the arithmetic result of their numbers, with the datatype of
\* the first literal, or the integer datatype when the first carries none.
C5_ArithmeticResult ==
    \A o \in Arithmetic, a \in NumericLiterals, b \in NumericLiterals :
        (Called /\ expression = Operation(o, <<Str(a.term), Str(b.term)>>)) =>
            outcome =
                Return(Str(Typed(NumberToString(ArithmeticResult(o, a.number, b.number)),
                                 IF a.datatype = Undefined THEN XSD_INTEGER
                                 ELSE a.datatype.s)),
                       bindings)

\* A quotient that is no integer was returned with the datatype of the
\* first operand, a decimal.
C5_Witness ==
    /\ expression = Operation("/", <<Str(Typed("0.5", XSD \o "decimal")),
                                     Str(Typed("2", XSD_INTEGER))>>)
    /\ Called
    /\ outcome.k = "return"
    /\ outcome.value = Str(Typed("0.25", XSD \o "decimal"))

\* C6: a comparison that returns, returns one of the two boolean sentinels,
\* and on two numeric literals the true one exactly when the comparison
\* holds of their numbers (of =, which compares the terms as they are
\* written, only the first is said).
C6_ComparisonSentinel ==
    /\ (Called /\ outcome.k = "return" /\ evaluator.k = "return"
          /\ IsOperation(expression) /\ expression.operator \in Comparisons) =>
           outcome.value \in {Str(XSD_TRUE), Str(XSD_FALSE)}
    /\ \A o \in Comparisons \ {"="}, a \in NumericLiterals, b \in NumericLiterals :
           (Called /\ expression = Operation(o, <<Str(a.term), Str(b.term)>>)) =>
               (outcome.value = Str(XSD_TRUE)) = ComparisonHolds(o, a.number, b.number)

\* C7: compiling and evaluating a stub with as many arguments as it
\* declares ends in the unsupported-operator error.
C7_StubsUnsupported ==
    (Called /\ IsOperation(expression) /\ expression.operator \in Stubs
       /\ (expression.operator \in OperatorNames =>
             Len(expression.args) = length(expression.operator))) =>
        /\ outcome.k = "throw"
        /\ outcome.error.kind \in {"UnsupportedOperator", "NotYetSupported"}

\* C8: compiling and evaluating an operation whose operator is exists ends
\* in an error, whatever its arguments and the bindings: compiling throws,
\* or every call throws.
C8_ExistsFails ==
    (Compiled /\ IsOperation(expression) /\ expression.operator = "exists") =>
        \/ evaluator.k = "throw"
        \/ ~Called
        \/ outcome.k = "throw"

\* EXISTS with its one argument compiled, and the call threw.
C8_Witness ==
    /\ expression = Operation("exists", <<Str(Literal("2"))>>)
    /\ evaluator.k = "return"
    /\ Called
    /\ outcome.k = "throw"
    /\ outcome.error = Error("NotYetSupported", "exists")

C10_BindingsUnchanged == Called => outcome.bindings = bindings

\* An operator that takes the bindings as its call context returned, and a
\* variable lookup below an operation failed.
C10_Witness ==
    /\ Called
    /\ IsObject(bindings)
    /\ IsOperation(expression)
    /\ expression.operator \in {"bound", "+"}
    /\ outcome.bindings = bindings
    /\ \/ expression.operator = "bound" /\ outcome.k = "return"
       \/ outcome.k = "throw" /\ outcome.error.kind = "UnboundVariable"

\* The two-string functions that test the compatibility of their arguments.
TwoStringFunctions == {"strstarts", "strends", "contains", "strbefore", "strafter"}

\* The term the leaf e of an expression evaluates to with the bindings of
\* the last call.
TermOf(e) == IF IsVariable(e) THEN bindings.props[e.s] ELSE e

\* The leaf e evaluates to a term with the bindings of the last call.
HasTerm(e) == IsString(e) /\ (IsVariable(e) => Bound(e.s))

\* The last call was of a two-string function on two leaves that evaluate
\* to terms.
CalledOnTwoTerms ==
    /\ Called
    /\ IsOperation(expression)
    /\ expression.operator \in TwoStringFunctions
    /\ Len(expression.args) = 2
    /\ HasTerm(expression.args[1])
    /\ HasTerm(expression.args[2])

\* Both terms are literals, and the second carries no language tag or the
\* tag of the first.
CompatibleTerms(t1, t2) ==
    /\ Truthy(isLiteral(t1))
    /\ Truthy(isLiteral(t2))
    /\ \/ getLiteralLanguage(t2) = ""
       \/ getLiteralLanguage(t2) = getLiteralLanguage(t1)

\* Both terms are literals, and both carry no language tag or both the same.
SameTagTerms(t1, t2) ==
    /\ Truthy(isLiteral(t1))
    /\ Truthy(isLiteral(t2))
    /\ getLiteralLanguage(t1) = getLiteralLanguage(t2)

ArgumentCompatibilityError ==
    outcome.k = "throw" /\ outcome.error.kind = "ArgumentCompatibility"

\* C11: a two-string function called on two terms fails with the
\* argument-compatibility error exactly when the two are not both literals
\* of which the second carries no language tag or the tag of the first; a
\* tagged first argument goes with an untagged second.
C11_CompatibleArguments ==
    CalledOnTwoTerms =>
        (ArgumentCompatibilityError <=>
            ~CompatibleTerms(TermOf(expression.args[1]), TermOf(expression.args[2])))

\* C11 as stated: the error comes exactly when the two terms are not both
\* literals with no language tag or with the same language tag.
C11_SameTagOnly ==
    CalledOnTwoTerms =>
        (ArgumentCompatibilityError <=>
            ~SameTagTerms(TermOf(expression.args[1]), TermOf(expression.args[2])))

\* STRSTARTS of a tagged literal and an untagged one returned.
C11_Witness ==
    /\ Called
    /\ expression = Operation("strstarts", <<Str(Tagged("abc", "en")), Str(Literal("b"))>>)
    /\ outcome.k = "return"
    /\ outcome.value = Bool(FALSE)

\* The operators said to take their arguments as expressions.
RawExpressionOperators == {"bound", "if", "coalesce", "exists", "not exists"}

\* C12: an operation of bound, if, coalesce, exists or not exists with as
\* many arguments as its function declares compiles whatever its arguments
\* are, and a call of it evaluates none of them: no call ends in the error
\* of a variable lookup.
C12_RawExpressionOperators ==
    (Compiled /\ IsOperation(expression)
       /\ expression.operator \in RawExpressionOperators
       /\ Len(expression.args) = length(expression.operator)) =>
        /\ evaluator.k = "return"
        /\ evaluator.value.f = "expressions"
        /\ Called => ~(outcome.k = "throw" /\ outcome.error.kind = "UnboundVariable")

\* t is a literal that carries the lexical form lex and the language tag
\* and the datatype of the literal source.
IsLiteralLike(t, lex, source) ==
    /\ IsString(t)
    /\ Truthy(isLiteral(t))
    /\ getLiteralValue(t) = lex
    /\ getLiteralLanguage(t) = getLiteralLanguage(source)
    /\ getLiteralType(t) = getLiteralType(source)

\* C13: compiling concat with two literals succeeds, and a call returns a
\* literal whose lexical form is the two lexical forms one after the other
\* and whose language tag and datatype are those of the first.
C13_Concat ==
    (Compiled /\ IsOperation(expression) /\ expression.operator = "concat"
       /\ Len(expression.args) = 2
       /\ \A i \in 1..2 : IsString(expression.args[i])
                             /\ Truthy(isLiteral(expression.args[i]))) =>
        /\ evaluator.k = "return"
        /\ Called =>
              /\ outcome.k = "return"
              /\ IsLiteralLike(outcome.value,
                               getLiteralValue(expression.args[1])
                                   \o getLiteralValue(expression.args[2]),
                               expression.args[1])

\* The last call was of the evaluator of an operation on evaluated
\* arguments.
CalledOnEvaluatedArguments ==
    /\ Called
    /\ evaluator.k = "return"
    /\ evaluator.value.f = "operation"

\* The numbers the last call may have drawn for RAND: those with which the
\* evaluator gives the outcome the call gave.
Drawn == {random \in RandomNumbers : outcome = Call(evaluator.value, bindings, random)}

\* What the evaluator of the i-th argument of the expression gives with
\* the bindings of the last call.
ArgumentOutcome(i, random) ==
    Call(evaluator.value.argumentExpressions[i], bindings, random)

\* The i-th argument is evaluated with the bindings of the last call: every
\* argument before it returned a value that the conversion took.
ArgumentReached(i, random) ==
    \A j \in 1..(i - 1) :
        /\ ArgumentOutcome(j, random).k = "return"
        /\ ConvertArgument(type(expression.operator),
                           ArgumentOutcome(j, random).value).k = "return"

\* C14: a call of the evaluator of an operation on evaluated arguments
\* evaluates the arguments in order before it applies the operator: when
\* the evaluation of any argument fails, the call fails, and with the
\* error of that argument when the arguments before it were evaluated and
\* converted; a first argument that decides && or || does not keep the
\* second from being evaluated.
C14_ArgumentsEvaluatedFirst ==
    CalledOnEvaluatedArguments =>
        \A random \in Drawn :
            \A i \in 1..Len(expression.args) :
                ArgumentOutcome(i, random).k = "throw" =>
                    /\ outcome.k = "throw"
                    /\ ArgumentReached(i, random) =>
                          outcome.error = ArgumentOutcome(i, random).error

\* && of the false sentinel and a variable that is not bound failed with
\* the error of the variable.
C14_Witness ==
    /\ Called
    /\ expression = Operation("&&", <<Str(XSD_FALSE), Str("?x")>>)
    /\ evaluator.k = "return"
    /\ ~Bound("?x")
    /\ outcome.k = "throw"
    /\ outcome.error = Error("UnboundVariable", "?x")

\* v is a term: a literal, or a string that is none.
IsTerm(v) == IsString(v) /\ (Truthy(isLiteral(v)) => IsLiteralText(v))

\* The effective boolean value of the term t.
EffectiveBooleanValue(t) ==
    ~(t = Str(XSD_FALSE) \/ (Truthy(isLiteral(t)) /\ getLiteralValue(t) = "0"))

\* What the logical operator o makes of the booleans bs.
Logical(o, bs) ==
    CASE o = "!" -> ~bs[1]
      [] o = "&&" -> bs[1] /\ bs[2]
      [] o = "||" -> bs[1] \/ bs[2]

\* The boolean sentinel of b.
Sentinel(b) == Str(IF b THEN XSD_TRUE ELSE XSD_FALSE)

\* C15: a call of !, && or || whose arguments evaluate to terms returns
\* the boolean sentinel of the operator applied on the effective boolean
\* values of the terms: false of the false sentinel and of a literal with
\* the lexical value "0", true of every other term.
C15_EffectiveBooleanValue ==
    (CalledOnEvaluatedArguments /\ expression.operator \in BooleanArguments) =>
        \A random \in Drawn :
            (\A i \in 1..Len(expression.args) :
                /\ ArgumentOutcome(i, random).k = "return"
                /\ IsTerm(ArgumentOutcome(i, random).value)) =>
                /\ outcome.k = "return"
                /\ outcome.value =
                     Sentinel(Logical(expression.operator,
                                      [i \in 1..Len(expression.args) |->
                                         EffectiveBooleanValue(
                                             ArgumentOutcome(i, random).value)]))

\* && of an IRI and the empty literal returned the true sentinel.
C15_Witness ==
    /\ Called
    /\ expression = Operation("&&", <<Str(IRI_A), Str(Literal(""))>>)
    /\ outcome.k = "return"
    /\ outcome.value = Str(XSD_TRUE)

====
